---- MODULE Spec2Model ----
(***************************************************************************)
(* Company-intelligence aggregator of the Daily Companion (app/services.py) *)
(* get_company_intel and the readers it drives, with every provider call   *)
(* (_get_json) answered nondeterministically: "ok" (a well-formed payload), *)
(* "fail" (_get_json raises: network error, HTTP error, unparsable body) or *)
(* "bad" (a JSON value of the wrong shape, on which the reader's first      *)
(* access raises).                                                          *)
(*                                                                         *)
(* Python strings are sequences of one-character strings, so that strip(),  *)
(* upper() and the ticker regular expression are computed character by      *)
(* character.  None and "" are both the empty sequence: the code only ever  *)
(* tests these values for truth.                                            *)
(***************************************************************************)
EXTENDS Integers, Sequences, FiniteSets, TLC

VARIABLES
    pc,          \* position inside get_company_intel: idle/resolve/summary/sec/leadership/done
    query,       \* the argument of the running get_company_intel call
    q,           \* query.strip()
    is_ticker,   \* the ticker heuristic of line 127
    title,       \* local `title`
    wiki_qid,    \* local `wiki_qid`
    out,         \* the record under construction / returned
    raised,      \* TRUE iff an exception left get_company_intel
    calls,       \* provider requests issued by the running call, in order: <<api, argument>>
    env,         \* the answer each provider request of the running call received
    directory,   \* content of the SEC company_tickers.json file (rows in file order)
    dirFetched,  \* TRUE once a download of the ticker directory has succeeded
    rd,          \* last direct call of a reader: its arguments and what it returned
    store,       \* data.json, the in-memory copy of each holder, the tables shown
    am           \* an AlertsManager: its rules, the keys it has seen, what it notified

vars == <<pc, query, q, is_ticker, title, wiki_qid, out, raised, calls, env,
          directory, dirFetched, rd, store, am>>

(***************************************************************************)
(* Bounds of the model                                                      *)
(***************************************************************************)
MaxFilings == 11   \* most entries a submissions payload carries in an aggregation
MaxArr == 3        \* longest form/filingDate/primaryDocDescription array in a direct reader call
MaxLimit == 4      \* largest limit passed in a direct reader call

(***************************************************************************)
(* Program constants                                                        *)
(***************************************************************************)
FilingsLimit == 10   \* default of _sec_recent_filings(cik, limit=10)
TickerMaxLen == 6    \* len(q) <= 6 in the ticker heuristic
MissingCik == -1     \* a directory row without "cik_str": row.get("cik_str") is None

(***************************************************************************)
(* Python string primitives                                                 *)
(***************************************************************************)
LowerChars == <<"a", "b", "e", "n", "o">>
UpperChars == <<"A", "B", "E", "N", "O">>
UpperLetters == {UpperChars[i] : i \in 1..Len(UpperChars)} \cup {"S", "W", "X", "Q", "T", "L", "M"}
Whitespace == {" "}
DigitChars == <<"0", "1", "2", "3", "4", "5", "6", "7", "8", "9">>

Min(a, b) == IF a <= b THEN a ELSE b
Max(a, b) == IF a >= b THEN a ELSE b

\* str.upper(), one character
UpperChar(c) ==
    IF \E i \in 1..Len(LowerChars) : LowerChars[i] = c
    THEN UpperChars[CHOOSE i \in 1..Len(LowerChars) : LowerChars[i] = c]
    ELSE c

PyUpper(s) == [i \in 1..Len(s) |-> UpperChar(s[i])]

\* str.strip(): drop leading and trailing whitespace
PyStrip(s) ==
    LET keep == {i \in 1..Len(s) : s[i] \notin Whitespace} IN
    IF keep = {} THEN <<>>
    ELSE LET lo == CHOOSE i \in keep : \A j \in keep : i <= j
             hi == CHOOSE i \in keep : \A j \in keep : i >= j
         IN SubSeq(s, lo, hi)

\* truth value of a str / None
Truthy(s) == s # <<>>

\* Python `a or b` on strings
PyOr(a, b) == IF Truthy(a) THEN a ELSE b

\* re.fullmatch(r"[A-Z.\-]+", s) is not None
FullMatchTicker(s) ==
    /\ Len(s) >= 1
    /\ \A i \in 1..Len(s) : s[i] \in UpperLetters \cup {".", "-"}

\* str(n) of a JSON number, str(None) of a missing one
RECURSIVE PyStrNat(_)
PyStrNat(n) ==
    IF n < 10 THEN <<DigitChars[n + 1]>>
    ELSE PyStrNat(n \div 10) \o <<DigitChars[(n % 10) + 1]>>

PyStr(n) == IF n = MissingCik THEN <<"N", "o", "n", "e">> ELSE PyStrNat(n)

\* int(s) raises ValueError unless s is a numeral
IsNumeral(s) ==
    /\ Len(s) >= 1
    /\ \A i \in 1..Len(s) : \E d \in 1..10 : DigitChars[d] = s[i]

DigitVal(c) == (CHOOSE d \in 1..10 : DigitChars[d] = c) - 1

RECURSIVE PyInt(_)
PyInt(s) ==
    IF Len(s) = 0 THEN 0
    ELSE 10 * PyInt(SubSeq(s, 1, Len(s) - 1)) + DigitVal(s[Len(s)])

\* f"{n:010d}": the numeral of n, zero-padded on the left to ten characters
PyFormat010(n) ==
    LET d == PyStrNat(n) IN
    [i \in 1..Max(0, 10 - Len(d)) |-> "0"] \o d

(***************************************************************************)
(* Readers.  Each returns [raised, ...]: raised = TRUE means the reader let  *)
(* an exception propagate to the code that called it.                       *)
(***************************************************************************)

\* _wiki_opensearch(q): no try block; res[1] is the list of titles
_wiki_opensearch(s, resp) ==
    IF resp.st = "ok"
    THEN [raised |-> FALSE, titles |-> resp.titles]
    ELSE [raised |-> TRUE, titles |-> <<>>]

\* out["wiki"] before any summary was stored: the empty dict
NoWiki == [fetched |-> FALSE, title |-> <<>>, extract |-> <<>>, url |-> <<>>,
           wikibase_item |-> <<>>]

\* _wiki_summary(title): no try block; the four .get() of the page summary
_wiki_summary(t, resp) ==
    IF resp.st = "ok"
    THEN [raised |-> FALSE,
          value |-> [fetched |-> TRUE, title |-> resp.title, extract |-> resp.extract,
                     url |-> resp.url, wikibase_item |-> resp.wikibase_item]]
    ELSE [raised |-> TRUE, value |-> NoWiki]

\* the row test without the two upper() calls
RowMatches_CaseSensitive(row, ticker) == PyOr(row.ticker, <<>>) = ticker

\* the row test of line 94
RowMatches(row, ticker) == PyUpper(PyOr(row.ticker, <<>>)) = PyUpper(ticker)

NoSec == [raised |-> FALSE, found |-> FALSE, cik |-> <<>>, ticker |-> <<>>, title |-> <<>>]

\* _sec_map_for_ticker(ticker): st is the outcome of the directory request,
\* dir the rows of the file.  Only the request is inside the try block.
_sec_map_for_ticker(ticker, st, dir) ==
    IF st = "fail" THEN NoSec
    ELSE IF st = "bad" THEN [NoSec EXCEPT !.raised = TRUE]
    ELSE LET hits == {i \in 1..Len(dir) : RowMatches(dir[i], ticker)} IN
         IF hits = {} THEN NoSec
         ELSE LET row == dir[CHOOSE i \in hits : \A j \in hits : i <= j] IN
              [raised |-> FALSE, found |-> TRUE, cik |-> PyStr(row.cik_str),
               ticker |-> row.ticker, title |-> row.title]

\* the zip without `limit` in the min(): every entry the provider sent
ZipFilings_NoLimit(forms, dates, descs, limit) ==
    LET n == Min(Min(Len(forms), Len(dates)), Len(descs)) IN
    [i \in 1..n |-> [form |-> forms[i], date |-> dates[i], desc |-> descs[i]]]

\* the zip pairing each form with the date of the next filing
ZipFilings_Shifted(forms, dates, descs, limit) ==
    LET n == Max(0, Min(Min(Len(forms), Len(dates)), Min(Len(descs), limit))) IN
    [i \in 1..n |-> [form |-> forms[i], date |-> dates[IF i < n THEN i + 1 ELSE i],
                     desc |-> descs[i]]]

\* the zip of lines 110-112
ZipFilings(forms, dates, descs, limit) ==
    LET n == Max(0, Min(Min(Len(forms), Len(dates)), Min(Len(descs), limit))) IN
    [i \in 1..n |-> [form |-> forms[i], date |-> dates[i], desc |-> descs[i]]]

\* _sec_recent_filings(cik, limit): requested = TRUE iff the submissions
\* request was issued.  int(cik) and the payload accesses are outside the try.
_sec_recent_filings(cik, limit, resp) ==
    IF ~Truthy(cik) THEN [raised |-> FALSE, requested |-> FALSE, value |-> <<>>]
    ELSE IF ~IsNumeral(cik) THEN [raised |-> TRUE, requested |-> FALSE, value |-> <<>>]
    ELSE IF resp.st = "fail" THEN [raised |-> FALSE, requested |-> TRUE, value |-> <<>>]
    ELSE IF resp.st = "bad" THEN [raised |-> TRUE, requested |-> TRUE, value |-> <<>>]
    ELSE [raised |-> FALSE, requested |-> TRUE,
          value |-> ZipFilings(resp.form, resp.filingDate, resp.primaryDocDescription, limit)]

\* label_for(id_): every failure inside is caught and gives the id back
label_for(id, lresp) ==
    IF lresp.st = "ok" THEN PyOr(lresp.label, id) ELSE id

\* the labels collected by the first loop of pull(): claim i of the list is
\* resolved with the answer lresps[i] when it links an item
RECURSIVE Collected(_, _)
Collected(claims, lresps) ==
    IF claims = <<>> THEN <<>>
    ELSE LET c == Head(claims)
             rest == Collected(Tail(claims), Tail(lresps))
         IN IF ~Truthy(c.v) \/ c.kind = "none" THEN rest
            ELSE IF c.kind = "item" THEN <<label_for(c.v, Head(lresps))>> \o rest
            ELSE <<c.v>> \o rest

\* the second loop of pull() without its membership test: every non-empty
\* label is kept
Uniq_KeepAll(acc, names) == acc \o SelectSeq(names, Truthy)

\* "uniq while preserving order"
RECURSIVE Uniq(_, _)
Uniq(acc, names) ==
    IF names = <<>> THEN acc
    ELSE LET n == Head(names) IN
         IF Truthy(n) /\ ~(\E i \in 1..Len(acc) : acc[i] = n)
         THEN Uniq(Append(acc, n), Tail(names))
         ELSE Uniq(acc, Tail(names))

\* pull(claim_prop)
pull(claims, lresps) == Uniq(<<>>, Collected(claims, lresps))

EmptyLeadership == [ceo |-> <<>>, chairperson |-> <<>>, managers |-> <<>>, owners |-> <<>>]

\* the reader with the CEO and chairperson properties exchanged
_wikidata_leadership_Swapped(qid, resp, lresps) ==
    IF ~Truthy(qid) THEN [raised |-> FALSE, requested |-> FALSE, value |-> EmptyLeadership]
    ELSE IF resp.st # "ok" THEN [raised |-> TRUE, requested |-> TRUE, value |-> EmptyLeadership]
    ELSE [raised |-> FALSE, requested |-> TRUE,
          value |-> [ceo         |-> pull(resp.claims.P488, lresps.P488),
                     chairperson |-> pull(resp.claims.P169, lresps.P169),
                     managers    |-> pull(resp.claims.P1037, lresps.P1037),
                     owners      |-> pull(resp.claims.P127, lresps.P127)]]

\* _wikidata_leadership(qid): the claims request is outside any try block;
\* lresps[p][i] answers the label lookup of claim i of property p
_wikidata_leadership(qid, resp, lresps) ==
    IF ~Truthy(qid) THEN [raised |-> FALSE, requested |-> FALSE, value |-> EmptyLeadership]
    ELSE IF resp.st # "ok" THEN [raised |-> TRUE, requested |-> TRUE, value |-> EmptyLeadership]
    ELSE [raised |-> FALSE, requested |-> TRUE,
          value |-> [ceo         |-> pull(resp.claims.P169, lresps.P169),
                     chairperson |-> pull(resp.claims.P488, lresps.P488),
                     managers    |-> pull(resp.claims.P1037, lresps.P1037),
                     owners      |-> pull(resp.claims.P127, lresps.P127)]]

(***************************************************************************)
(* Inputs and provider payloads                                             *)
(***************************************************************************)
TitleS == <<"S">>            \* a title of the SEC directory
TitleX == <<"X">>            \* another directory / encyclopedia title
TitleW == <<"W">>            \* an encyclopedia title
Qid    == <<"Q", "1">>       \* the company's Wikidata id
IdT    == <<"Q", "2">>       \* ids of linked entities
IdL    == <<"Q", "3">>

Queries ==
    { <<>>, <<" ">>,
      <<"A", "B">>, <<" ", "A", "B", " ">>, <<"a", "b">>, <<"A", "b">>,
      <<"A", ".", "B">>, <<"A", "B", "1">>, <<"N", "O">>,
      <<"A", "B", "A", "B", "A", "B">>, <<"A", "B", "A", "B", "A", "B", "A">>,
      <<"a", " ", "b">> }

Row(c, t, n) == [cik_str |-> c, ticker |-> t, title |-> n]

Directories ==
    { <<>>,
      <<Row(7, <<"A", "B">>, TitleS)>>,
      <<Row(7, <<"a", "b">>, TitleS)>>,
      <<Row(MissingCik, <<"A", "B">>, <<>>)>>,
      <<Row(42, <<"A", "b">>, TitleX), Row(7, <<"A", "B">>, TitleS)>>,
      <<Row(7, <<"A", "B", "A", "B", "A", "B", "A">>, TitleS), Row(42, <<"N", "O">>, TitleX)>> }

Outcomes == {"ok", "fail", "bad"}

OsResp(st, ts) == [st |-> st, titles |-> ts]
NoOs == OsResp("none", <<>>)
OsResponses ==
    {OsResp("fail", <<>>), OsResp("bad", <<>>)}
    \cup {OsResp("ok", ts) : ts \in {<<>>, <<TitleW>>, <<TitleX, TitleW>>}}

SumResp(st, t, e, u, w) ==
    [st |-> st, title |-> t, extract |-> e, url |-> u, wikibase_item |-> w]
NoSum == SumResp("none", <<>>, <<>>, <<>>, <<>>)
SumResponses ==
    { SumResp("fail", <<>>, <<>>, <<>>, <<>>),
      SumResp("bad", <<>>, <<>>, <<>>, <<>>),
      SumResp("ok", TitleW, <<"e">>, <<"u">>, Qid),
      SumResp("ok", TitleX, <<"e">>, <<"u">>, <<>>),
      SumResp("ok", <<>>, <<>>, <<>>, <<>>) }

\* a submissions payload whose arrays have the given lengths; entry i of each
\* array names its array and its position
SubmResp(st, nf, nd, np) ==
    [st |-> st,
     form |-> [i \in 1..nf |-> <<"form", i>>],
     filingDate |-> [i \in 1..nd |-> <<"date", i>>],
     primaryDocDescription |-> [i \in 1..np |-> <<"desc", i>>]]
NoSubm == SubmResp("none", 0, 0, 0)
SubmResponses ==
    {SubmResp("fail", 0, 0, 0), SubmResp("bad", 0, 0, 0)}
    \cup {SubmResp("ok", n, n, n) : n \in 0..MaxFilings}
    \cup {SubmResp("ok", 2, 1, 2), SubmResp("ok", 3, 3, 1), SubmResp("ok", 0, 2, 2)}

Claim(k, v) == [kind |-> k, v |-> v]
ClaimsOf(a, b, c, d) == [P169 |-> a, P488 |-> b, P1037 |-> c, P127 |-> d]
NoClaims == ClaimsOf(<<>>, <<>>, <<>>, <<>>)
Entities ==
    { NoClaims,
      ClaimsOf(<<Claim("item", IdT)>>, <<Claim("item", IdL)>>,
               <<Claim("str", <<"M">>)>>, <<>>),
      ClaimsOf(<<Claim("item", IdT), Claim("item", IdL), Claim("item", IdT)>>,
               <<Claim("none", <<>>), Claim("item", IdT)>>,
               <<>>,
               <<Claim("item", IdL), Claim("str", <<"L">>)>>) }

EntResp(st, cl) == [st |-> st, claims |-> cl]
NoEnt == EntResp("none", NoClaims)
EntResponses ==
    {EntResp("fail", NoClaims), EntResp("bad", NoClaims)}
    \cup {EntResp("ok", e) : e \in Entities}

LabelResp(st, l) == [st |-> st, label |-> l]
\* the label service: what a lookup of each id answers
LabelWorlds ==
    { [id \in {IdT, IdL} |-> LabelResp("ok", IF id = IdT THEN <<"T">> ELSE <<"L">>)],
      [id \in {IdT, IdL} |-> IF id = IdT THEN LabelResp("fail", <<>>) ELSE LabelResp("ok", <<>>)] }
NoWorld == [id \in {IdT, IdL} |-> LabelResp("none", <<>>)]

\* the answers the label lookups of one claim list receive in world w
LabelAnswers(claims, w) ==
    [i \in 1..Len(claims) |->
        IF claims[i].kind = "item" THEN w[claims[i].v] ELSE LabelResp("none", <<>>)]

AnswersFor(cl, w) ==
    [P169 |-> LabelAnswers(cl.P169, w), P488 |-> LabelAnswers(cl.P488, w),
     P1037 |-> LabelAnswers(cl.P1037, w), P127 |-> LabelAnswers(cl.P127, w)]

(***************************************************************************)
(* get_company_intel, one operator per try block.  s holds the locals the   *)
(* blocks share: [out, title, wiki_qid, calls, raised].                     *)
(***************************************************************************)
OutInit == [name |-> <<>>, ticker |-> <<>>, wiki |-> NoWiki, filings |-> <<>>,
            leadership |-> EmptyLeadership]

Locals0 == [out |-> OutInit, title |-> <<>>, wiki_qid |-> <<>>, calls |-> <<>>,
            raised |-> FALSE]

\* the classification with the length bound taken strictly
IsTicker_Short(qq) == Len(qq) < TickerMaxLen /\ PyUpper(qq) = qq /\ FullMatchTicker(qq)

\* line 127
IsTicker(qq) == Len(qq) <= TickerMaxLen /\ PyUpper(qq) = qq /\ FullMatchTicker(qq)

Called(s, api, arg) == [s EXCEPT !.calls = Append(@, <<api, arg>>)]

\* identity resolution that always asks the encyclopedia first, whatever the
\* kind of the query
ResolveStep_WikiFirst(s, qq, ist, os, dst, dir) ==
    LET osr == _wiki_opensearch(qq, os)
        s1 == Called(s, "opensearch", qq)
    IN IF osr.raised THEN [s1 EXCEPT !.title = qq]
       ELSE [s1 EXCEPT !.title = IF osr.titles = <<>> THEN <<>> ELSE osr.titles[1]]

\* lines 131-146: identity resolution
ResolveStep(s, qq, ist, os, dst, dir) ==
    IF ~ist
    THEN LET osr == _wiki_opensearch(qq, os)
             s1 == Called(s, "opensearch", qq)
         IN IF osr.raised THEN [s1 EXCEPT !.title = qq]
            ELSE [s1 EXCEPT !.title = IF osr.titles = <<>> THEN <<>> ELSE osr.titles[1]]
    ELSE LET sec == _sec_map_for_ticker(PyUpper(qq), dst, dir)
             s1 == Called(s, "directory", PyUpper(qq))
         IN IF sec.raised THEN [s1 EXCEPT !.title = qq]
            ELSE IF sec.found
            THEN [s1 EXCEPT !.out.ticker = PyOr(sec.ticker, PyUpper(qq)),
                            !.out.name = PyOr(sec.title, PyUpper(qq)),
                            !.title = sec.title]
            ELSE [s1 EXCEPT !.title = qq]

\* the summary block without its try/except: a failing summary request leaves
\* get_company_intel as an exception
SummaryStep_NoTry(s, resp) ==
    IF ~Truthy(s.title) THEN s
    ELSE LET ws == _wiki_summary(s.title, resp)
             s1 == Called(s, "summary", s.title)
         IN IF ws.raised THEN [s1 EXCEPT !.raised = TRUE]
            ELSE [s1 EXCEPT !.out.wiki = ws.value,
                            !.out.name = PyOr(@, PyOr(ws.value.title, <<>>)),
                            !.wiki_qid = ws.value.wikibase_item]

\* lines 148-156: encyclopedia summary
SummaryStep(s, resp) ==
    IF ~Truthy(s.title) THEN s
    ELSE LET ws == _wiki_summary(s.title, resp)
             s1 == Called(s, "summary", s.title)
         IN IF ws.raised THEN s1
            ELSE [s1 EXCEPT !.out.wiki = ws.value,
                            !.out.name = PyOr(@, PyOr(ws.value.title, <<>>)),
                            !.wiki_qid = ws.value.wikibase_item]

\* a fail-fast pipeline: a filings reader that brings nothing back aborts the
\* aggregation and the caller gets the empty record
StoreFilings_FailFast(s, o, f) ==
    IF f.raised \/ f.value = <<>> THEN [s EXCEPT !.out = OutInit, !.wiki_qid = <<>>]
    ELSE [s EXCEPT !.out = [o EXCEPT !.filings = f.value]]

\* out["filings"] = _sec_recent_filings(...) of lines 168 and 172, under the
\* except of line 173: a raising reader leaves the record as it was
StoreFilings(s, o, f) ==
    [s EXCEPT !.out = IF f.raised THEN o ELSE [o EXCEPT !.filings = f.value]]

\* the SEC block without the gap filling of lines 166-167: the second lookup
\* only serves the filings
SecStep_NoFill(s, qq, ist, dst, dir, sub) ==
    LET o1 == IF ~Truthy(s.out.ticker) /\ ist
              THEN [s.out EXCEPT !.ticker = PyUpper(qq)] ELSE s.out
        fill == ~Truthy(o1.name) \/ ~Truthy(o1.ticker)
        arg == IF fill THEN PyOr(o1.ticker, qq) ELSE o1.ticker
        sec2 == _sec_map_for_ticker(arg, dst, dir)
        s1 == Called([s EXCEPT !.out = o1], "directory", arg)
    IN IF sec2.raised \/ ~sec2.found THEN s1
       ELSE LET f == _sec_recent_filings(sec2.cik, FilingsLimit, sub)
                s2 == IF f.requested
                      THEN Called(s1, "submissions", PyFormat010(PyInt(sec2.cik)))
                      ELSE s1
            IN StoreFilings(s2, o1, f)

\* lines 158-174: ticker guess, second directory lookup, filings
SecStep(s, qq, ist, dst, dir, sub) ==
    LET o1 == IF ~Truthy(s.out.ticker) /\ ist
              THEN [s.out EXCEPT !.ticker = PyUpper(qq)] ELSE s.out
        fill == ~Truthy(o1.name) \/ ~Truthy(o1.ticker)
        arg == IF fill THEN PyOr(o1.ticker, qq) ELSE o1.ticker
        sec2 == _sec_map_for_ticker(arg, dst, dir)
        s1 == Called([s EXCEPT !.out = o1], "directory", arg)
    IN IF sec2.raised \/ ~sec2.found THEN s1
       ELSE LET o2 == IF fill
                      THEN [o1 EXCEPT !.ticker = PyOr(sec2.ticker, o1.ticker),
                                      !.name = PyOr(o1.name, sec2.title)]
                      ELSE o1
                f == _sec_recent_filings(sec2.cik, FilingsLimit, sub)
                s2 == IF f.requested
                      THEN Called(s1, "submissions", PyFormat010(PyInt(sec2.cik)))
                      ELSE s1
            IN StoreFilings(s2, o2, f)

\* the label lookups pull() issues for one claim list, in order
RECURSIVE LabelCalls(_)
LabelCalls(claims) ==
    IF claims = <<>> THEN <<>>
    ELSE LET c == Head(claims) IN
         (IF Truthy(c.v) /\ c.kind = "item" THEN <<<<"label", c.v>>>> ELSE <<>>)
         \o LabelCalls(Tail(claims))

\* lines 176-181: leadership
LeadStep(s, ent, lresps) ==
    IF ~Truthy(s.wiki_qid) THEN s
    ELSE LET r == _wikidata_leadership(s.wiki_qid, ent, lresps)
             s1 == Called(s, "entity", s.wiki_qid)
         IN IF r.raised THEN s1
            ELSE [s1 EXCEPT !.out.leadership = r.value,
                            !.calls = @ \o LabelCalls(ent.claims.P169)
                                        \o LabelCalls(ent.claims.P488)
                                        \o LabelCalls(ent.claims.P1037)
                                        \o LabelCalls(ent.claims.P127)]

NoEnv == [os |-> NoOs, dir1 |-> "none", summary |-> NoSum, dir2 |-> "none",
          subm |-> NoSubm, lead |-> NoEnt, world |-> NoWorld]

\* the whole call: the locals after the last block, the providers answering e
get_company_intel(qr, e, dir) ==
    LET qq == PyStrip(qr)
        ist == IsTicker(qq)
        s1 == ResolveStep(Locals0, qq, ist, e.os, e.dir1, dir)
        s2 == SummaryStep(s1, e.summary)
        s3 == SecStep(s2, qq, ist, e.dir2, dir, e.subm)
    IN LeadStep(s3, e.lead, AnswersFor(e.lead.claims, e.world))

(***************************************************************************)
(* providers.py: the price and the news reader.  A quote field is missing   *)
(* (None), a number, or a non-numeric string.                               *)
(***************************************************************************)
MaxPrice == 2
MaxArticles == 3

PxNone == [kind |-> "none", v |-> 0]
PxStr == [kind |-> "str", v |-> 0]
PxNum(n) == [kind |-> "num", v |-> n]
PxValues == {PxNone, PxStr} \cup {PxNum(n) : n \in 0..MaxPrice}

\* truth value of None / a number / a non-empty string
PxTruthy(x) == x.kind = "str" \/ (x.kind = "num" /\ x.v # 0)
\* Python `a or b` on quote fields
PxOr(a, b) == IF PxTruthy(a) THEN a ELSE b

\* t.price of yahooquery: the property raises, is not a dict, or is a dict;
\* d is t.price.get(symbol), flat is t.price.get("regularMarketPrice")
QuoteEntry(st, r, po, pr) == [st |-> st, regular |-> r, post |-> po, pre |-> pr]
NoEntry == QuoteEntry("missing", PxNone, PxNone, PxNone)
Quote(st, d, flat) == [st |-> st, d |-> d, flat |-> flat]
NoQuote == Quote("none", NoEntry, PxNone)
QuoteEntries ==
    {NoEntry, QuoteEntry("str", PxNone, PxNone, PxNone)}
    \cup {QuoteEntry("dict", r, po, pr) : r \in PxValues, po \in PxValues, pr \in PxValues}
Quotes ==
    {Quote("raise", NoEntry, PxNone), Quote("nondict", NoEntry, PxNone)}
    \cup {Quote("dict", d, f) : d \in QuoteEntries, f \in PxValues}

\* lines 21-28: the px picked from t.price
SelectPx(quote) ==
    LET d == quote.d
        px == IF quote.st = "dict" /\ d.st = "dict"
              THEN PxOr(PxOr(d.regular, d.post), d.pre)
              ELSE PxNone
    IN IF px.kind = "none" /\ quote.st = "dict" THEN quote.flat ELSE px

NoPrice == [raised |-> FALSE, value |-> PxNone, sources |-> <<"yahooquery">>]

\* a reader that reports 0.0 when it has no price
get_price_ZeroDefault(symbol, quote) ==
    IF quote.st = "raise" THEN NoPrice
    ELSE LET px == SelectPx(quote) IN
         IF px.kind = "none" THEN [NoPrice EXCEPT !.value = PxNum(0)]
         ELSE IF px.kind = "str" THEN NoPrice
         ELSE [NoPrice EXCEPT !.value = px]

\* get_price(symbol): yahooquery only; every exception, float(px) of a
\* non-numeric string included, is caught and gives None
get_price(symbol, quote) ==
    IF quote.st = "raise" THEN NoPrice
    ELSE LET px == SelectPx(quote) IN
         IF px.kind = "none" THEN NoPrice
         ELSE IF px.kind = "str" THEN NoPrice
         ELSE [NoPrice EXCEPT !.value = px]

\* a NewsAPI answer: the request raises, the payload is not an object, or it
\* is an object whose "articles" (missing = []) names its entries
NewsResp(st, n) == [st |-> st, articles |-> [i \in 1..n |-> <<"article", i>>]]
NoNews == NewsResp("none", 0)
NewsResponses ==
    {NewsResp("fail", 0), NewsResp("bad", 0)}
    \cup {NewsResp("ok", n) : n \in 0..MaxArticles}

\* the search without the key test of lines 124-125
newsapi_search_NoKeyCheck(key, qry, limit, resp) ==
    IF resp.st = "ok"
    THEN [raised |-> FALSE, requested |-> TRUE, value |-> resp.articles]
    ELSE [raised |-> FALSE, requested |-> TRUE, value |-> <<>>]

\* newsapi_search(query, limit) with NEWSAPI_KEY = key
newsapi_search(key, qry, limit, resp) ==
    IF ~Truthy(key) THEN [raised |-> FALSE, requested |-> FALSE, value |-> <<>>]
    ELSE IF resp.st = "ok"
    THEN [raised |-> FALSE, requested |-> TRUE, value |-> resp.articles]
    ELSE [raised |-> FALSE, requested |-> TRUE, value |-> <<>>]

(***************************************************************************)
(* main.py / alerts.py: the data store.  data.json holds one JSON object;   *)
(* every holder (a MainWindow, an AlertsManager) loads it whole when it is   *)
(* constructed, works on its own copy and writes the whole copy back.        *)
(* Only the lists the handlers below touch are kept; a note's time stamp is  *)
(* left out.                                                                *)
(***************************************************************************)
Data(n, w, r, a) == [notes |-> n, watchlist |-> w, reminders |-> r, alerts |-> a]
EmptyData == Data(<<>>, <<>>, <<>>, <<>>)
NoFile == [exists |-> FALSE, data |-> EmptyData]

\* load_data() of main.py and _load() of alerts.py: the file's object, the
\* defaults when there is no file
load_data(file) == IF file.exists THEN file.data ELSE EmptyData

\* save_data(data): the whole object is written; w = "fail" is a write error
\* (main.py catches and prints it)
save_data(file, data, w) ==
    IF w = "ok" THEN [exists |-> TRUE, data |-> data] ELSE file

Contains(s, x) == \E i \in 1..Len(s) : s[i] = x
Range(s) == {s[i] : i \in 1..Len(s)}
DropAt(s, k) == [i \in 1..(Len(s) - 1) |-> IF i < k THEN s[i] ELSE s[i + 1]]
\* list.remove(x): the first occurrence goes
RemoveFirst(s, x) ==
    IF ~Contains(s, x) THEN s
    ELSE DropAt(s, CHOOSE i \in 1..Len(s) : s[i] = x /\ \A j \in 1..(i - 1) : s[j] # x)

\* order of str: code points, a proper prefix first
CharRank(c) == CHOOSE i \in 1..Len(UpperChars) : UpperChars[i] = c
StrLess(a, b) ==
    \E k \in 1..(Min(Len(a), Len(b)) + 1) :
        /\ \A j \in 1..(k - 1) : a[j] = b[j]
        /\ IF k > Len(a) THEN k <= Len(b)
           ELSE k <= Len(b) /\ CharRank(a[k]) < CharRank(b[k])

\* sorted(set)
RECURSIVE PySorted(_)
PySorted(S) ==
    IF S = {} THEN <<>>
    ELSE LET x == CHOOSE x \in S : \A y \in S \ {x} : StrLess(x, y)
         IN <<x>> \o PySorted(S \ {x})

Note(sym, txt) == [symbol |-> sym, text |-> txt]

\* a handler that stores the symbol and the text as they were typed
_add_note_Raw(data, symbol, text, fsym, ftxt) ==
    LET sym == PyOr(symbol, fsym)
        txt == PyOr(text, ftxt)
    IN IF ~Truthy(PyStrip(sym)) \/ ~Truthy(PyStrip(txt)) THEN [done |-> FALSE, data |-> data]
       ELSE [done |-> TRUE, data |-> [data EXCEPT !.notes = Append(@, Note(sym, txt))]]

\* _add_note(symbol, text): fsym and ftxt are the two input fields, read when
\* the argument is empty or None
_add_note(data, symbol, text, fsym, ftxt) ==
    LET sym == PyUpper(PyStrip(PyOr(symbol, fsym)))
        txt == PyStrip(PyOr(text, ftxt))
    IN IF ~Truthy(sym) \/ ~Truthy(txt) THEN [done |-> FALSE, data |-> data]
       ELSE [done |-> TRUE, data |-> [data EXCEPT !.notes = Append(@, Note(sym, txt))]]

\* perform_search(): the new _last_search symbol; an empty input leaves the
\* previous one
perform_search(search, input) ==
    LET symbol == PyUpper(PyStrip(input)) IN
    IF ~Truthy(symbol) THEN search ELSE symbol

\* adding without looking whether the symbol is already listed
_add_current_to_watchlist_NoCheck(data, search) ==
    IF ~Truthy(search) THEN [done |-> FALSE, data |-> data]
    ELSE [done |-> TRUE, data |-> [data EXCEPT !.watchlist = Append(@, search)]]

\* _add_current_to_watchlist(): search is the symbol of _last_search, <<>>
\* when nothing was searched yet
_add_current_to_watchlist(data, search) ==
    IF ~Truthy(search) \/ Contains(data.watchlist, search)
    THEN [done |-> FALSE, data |-> data]
    ELSE [done |-> TRUE, data |-> [data EXCEPT !.watchlist = Append(@, search)]]

\* _refresh_watchlist_table(): t is what yahooquery does ("none": the module
\* is not installed); the rows shown, and whether the data is saved again
_refresh_watchlist_table(data, t) ==
    IF data.watchlist # <<>> /\ t # "none"
    THEN IF t = "raise" THEN [tbl |-> <<>>, saves |-> FALSE]
         ELSE [tbl |-> data.watchlist, saves |-> TRUE]
    ELSE [tbl |-> data.watchlist, saves |-> FALSE]

\* _import_watchlist_csv(): rows holds the first cell of each CSV row
_import_watchlist_csv(data, rows) ==
    LET syms == {PyUpper(PyStrip(rows[i])) : i \in 1..Len(rows)} \ {<<>>}
    IN [data EXCEPT !.watchlist = PySorted(Range(@) \cup syms)]

\* _remove_selected(): the selected rows, from the last to the first
RECURSIVE _remove_selected(_, _, _)
_remove_selected(wl, tbl, rows) ==
    IF rows = {} THEN [wl |-> wl, tbl |-> tbl]
    ELSE LET r == CHOOSE r \in rows : \A x \in rows : x <= r
         IN _remove_selected(RemoveFirst(wl, tbl[r]), DropAt(tbl, r), rows \ {r})

Reminder(t, hh, mm, days) == [title |-> t, hour |-> hh, minute |-> mm, days |-> days]

\* _add_reminder(): title field, time field, checked weekdays
_add_reminder(data, t, hh, mm, days) ==
    IF ~Truthy(PyStrip(t)) \/ days = <<>> THEN [done |-> FALSE, data |-> data]
    ELSE [done |-> TRUE,
          data |-> [data EXCEPT !.reminders = Append(@, Reminder(PyStrip(t), hh, mm, days))]]

\* _refresh_reminders(): one row per reminder, title and "HH:MM"
_refresh_reminders(data) ==
    [i \in 1..Len(data.reminders) |->
        [title |-> data.reminders[i].title,
         tm |-> <<data.reminders[i].hour, data.reminders[i].minute>>]]

\* _remove_selected_rem(): every reminder with the title and time of a
\* selected row is dropped, the row is removed from the table
RECURSIVE _remove_selected_rem(_, _, _)
_remove_selected_rem(rems, tbl, rows) ==
    IF rows = {} THEN [rems |-> rems, tbl |-> tbl]
    ELSE LET r == CHOOSE r \in rows : \A x \in rows : x <= r
             keep(x) == ~(x.title = tbl[r].title /\ <<x.hour, x.minute>> = tbl[r].tm)
         IN _remove_selected_rem(SelectSeq(rems, keep), DropAt(tbl, r), rows \ {r})

\* add_price_alert(symbol) of AlertsManager (thresholds left out)
add_price_alert(data, symbol) ==
    [data EXCEPT !.alerts = Append(@, [type |-> "price", symbol |-> PyUpper(symbol),
                                       enabled |-> TRUE])]

\* add_legal_alert(symbol) of AlertsManager
add_legal_alert(data, symbol) ==
    [data EXCEPT !.alerts = Append(@, [type |-> "legal", symbol |-> PyUpper(symbol),
                                       enabled |-> TRUE])]

Windows == {"W1", "W2"}
Holders == Windows \cup {"AM"}

\* what the last handler did: its holder, its arguments, whether it changed
\* the data and whether the file was written
NoLast == [op |-> "none", h |-> "none", symbol |-> <<>>, text |-> <<>>,
           done |-> FALSE, saved |-> FALSE]

Store0 == [file |-> NoFile,
           live |-> [h \in Holders |-> FALSE],
           mem |-> [h \in Holders |-> EmptyData],
           search |-> [h \in Windows |-> <<>>],
           wlTbl |-> [h \in Windows |-> <<>>],
           remTbl |-> [h \in Windows |-> <<>>],
           last |-> NoLast]

(***************************************************************************)
(* alerts.py: AlertsManager.tick().  The SEC feed of a symbol lists its      *)
(* filings most recent first; filing i of the timeline was filed on day i.   *)
(***************************************************************************)
MaxFeed == 4
LegalWindow == 3

Filing(i) == [form |-> IF i % 2 = 1 THEN "8-K" ELSE "10-K", filingDate |-> i]
FeedAt(k) == [i \in 1..k |-> Filing(k + 1 - i)]
Feeds == {FeedAt(0), FeedAt(MaxFeed - 1), FeedAt(MaxFeed), <<Filing(1), Filing(1)>>}

\* what the providers answer for one alert: sec_map_for_ticker finds the
\* symbol or not, get_recent_filings returns the feed ([] on any failure)
TickAnswers == {[found |-> FALSE, feed |-> <<>>]} \cup {[found |-> TRUE, feed |-> f] : f \in Feeds}

AlertSymbols == {<<"A", "B">>, <<"N", "O">>}
Alert(ty, sym, en) == [type |-> ty, symbol |-> sym, enabled |-> en]
FilingKey(sym, f) == <<sym, f.form, f.filingDate>>
AllKeys == {FilingKey(s, Filing(i)) : s \in AlertSymbols, i \in 1..MaxFeed}

Am0 == [alerts |-> <<>>, seen |-> {}, sent |-> [k \in AllKeys |-> 0],
        answers |-> <<>>, fresh |-> {}]

\* lines 76-80 without the test of line 78: every filing looked at is notified
RECURSIVE NotifyFilings_NoSeen(_, _, _)
NotifyFilings_NoSeen(st, sym, fs) ==
    IF fs = <<>> THEN st
    ELSE LET key == FilingKey(sym, Head(fs))
         IN NotifyFilings_NoSeen([st EXCEPT !.seen = @ \cup {key},
                                           !.sent[key] = @ + 1,
                                           !.fresh = @ \cup {key}], sym, Tail(fs))

\* lines 76-80: a filing whose key was not seen yet is remembered and notified
RECURSIVE NotifyFilings(_, _, _)
NotifyFilings(st, sym, fs) ==
    IF fs = <<>> THEN st
    ELSE LET key == FilingKey(sym, Head(fs))
         IN IF key \in st.seen THEN NotifyFilings(st, sym, Tail(fs))
            ELSE NotifyFilings([st EXCEPT !.seen = @ \cup {key},
                                          !.sent[key] = @ + 1,
                                          !.fresh = @ \cup {key}], sym, Tail(fs))

\* _tick_legal(): the alerts from the i-th on, answers[i] for alert i
RECURSIVE _tick_legal(_, _, _)
_tick_legal(st, answers, i) ==
    IF i > Len(st.alerts) THEN st
    ELSE LET a == st.alerts[i]
             ans == answers[i]
         IN IF a.type # "legal" \/ ~a.enabled \/ ~ans.found
            THEN _tick_legal(st, answers, i + 1)
            ELSE _tick_legal(NotifyFilings(st, PyUpper(a.symbol),
                                           SubSeq(ans.feed, 1, Min(LegalWindow, Len(ans.feed)))),
                             answers, i + 1)

(***************************************************************************)
(* The aggregator as a state machine: a caller invokes get_company_intel,   *)
(* the four try blocks run in order, the record is returned.                *)
(***************************************************************************)
NoRd == [op |-> "none", ticker |-> <<>>, st |-> "none", cik |-> <<>>, limit |-> 0,
         resp |-> NoSubm, requested |-> FALSE, raised |-> FALSE, sec |-> NoSec,
         value |-> <<>>, qid |-> <<>>, ent |-> NoEnt,
         lresps |-> AnswersFor(NoClaims, NoWorld), lead |-> EmptyLeadership,
         symbol |-> <<>>, avkey |-> <<>>, quote |-> NoQuote, price |-> PxNone,
         sources |-> <<>>, key |-> <<>>, nq |-> <<>>, nresp |-> NoNews,
         arg |-> <<>>, os |-> NoOs, titles |-> <<>>, sum |-> NoSum, wiki |-> NoWiki]

Locals == [out |-> out, title |-> title, wiki_qid |-> wiki_qid, calls |-> calls,
           raised |-> raised]

SetLocals(s, next) ==
    /\ out' = s.out
    /\ title' = s.title
    /\ wiki_qid' = s.wiki_qid
    /\ calls' = s.calls
    /\ raised' = s.raised
    /\ pc' = IF s.raised THEN "done" ELSE next

Idle ==
    /\ pc = "idle" /\ query = <<>> /\ q = <<>> /\ is_ticker = FALSE
    /\ title = <<>> /\ wiki_qid = <<>> /\ out = OutInit /\ raised = FALSE
    /\ calls = <<>> /\ env = NoEnv

Init ==
    /\ Idle
    /\ directory \in Directories
    /\ dirFetched = FALSE
    /\ rd = NoRd
    /\ store = Store0
    /\ am = Am0

\* lines 123-129
Start(qr) ==
    /\ pc = "idle"
    /\ query' = qr
    /\ q' = PyStrip(qr)
    /\ is_ticker' = IsTicker(PyStrip(qr))
    /\ SetLocals(Locals0, "resolve")
    /\ env' = NoEnv
    /\ UNCHANGED <<directory, dirFetched, rd, store, am>>

Resolve ==
    /\ pc = "resolve"
    /\ \E os \in (IF is_ticker THEN {NoOs} ELSE OsResponses),
          dst \in (IF is_ticker THEN Outcomes ELSE {"none"}) :
          /\ SetLocals(ResolveStep(Locals, q, is_ticker, os, dst, directory), "summary")
          /\ env' = [env EXCEPT !.os = os, !.dir1 = dst]
          /\ dirFetched' = (dirFetched \/ dst = "ok")
    /\ UNCHANGED <<query, q, is_ticker, directory, rd, store, am>>

Summary ==
    /\ pc = "summary"
    /\ \E resp \in (IF Truthy(title) THEN SumResponses ELSE {NoSum}) :
          /\ SetLocals(SummaryStep(Locals, resp), "sec")
          /\ env' = [env EXCEPT !.summary = resp]
    /\ UNCHANGED <<query, q, is_ticker, directory, dirFetched, rd, store, am>>

Sec ==
    /\ pc = "sec"
    /\ \E dst \in Outcomes, sub \in SubmResponses :
          LET s2 == SecStep(Locals, q, is_ticker, dst, directory, sub)
              asked == \E i \in 1..Len(s2.calls) : s2.calls[i][1] = "submissions"
          IN /\ SetLocals(s2, "leadership")
             /\ env' = [env EXCEPT !.dir2 = dst, !.subm = IF asked THEN sub ELSE NoSubm]
             /\ dirFetched' = (dirFetched \/ dst = "ok")
    /\ UNCHANGED <<query, q, is_ticker, directory, rd, store, am>>

Leadership ==
    /\ pc = "leadership"
    /\ \E ent \in (IF Truthy(wiki_qid) THEN EntResponses ELSE {NoEnt}),
          w \in (IF Truthy(wiki_qid) THEN LabelWorlds ELSE {NoWorld}) :
          /\ SetLocals(LeadStep(Locals, ent, AnswersFor(ent.claims, w)), "done")
          /\ env' = [env EXCEPT !.lead = ent,
                                !.world = IF ent.st = "ok" THEN w ELSE NoWorld]
    /\ UNCHANGED <<query, q, is_ticker, directory, dirFetched, rd, store, am>>

\* line 183: the caller takes the record; the next call starts afresh
Return ==
    /\ pc = "done"
    /\ pc' = "idle" /\ query' = <<>> /\ q' = <<>> /\ is_ticker' = FALSE
    /\ title' = <<>> /\ wiki_qid' = <<>> /\ out' = OutInit /\ raised' = FALSE
    /\ calls' = <<>> /\ env' = NoEnv
    /\ UNCHANGED <<directory, dirFetched, rd, store, am>>

Next ==
    \/ \E qr \in Queries : Start(qr)
    \/ Resolve
    \/ Summary
    \/ Sec
    \/ Leadership
    \/ Return

Spec == Init /\ [][Next]_vars

(***************************************************************************)
(* Direct calls of the two SEC readers, with arguments of every kind        *)
(***************************************************************************)
Tickers == { <<"A", "B">>, <<"a", "b">>, <<"A", "b">>, <<"N", "O">>, <<"n", "o">>,
             <<"X">>, <<>> }
Ciks == {<<>>} \cup {PyStr(c) : c \in {MissingCik, 7, 42}}
Limits == -1..MaxLimit
ReaderPayloads ==
    {SubmResp("fail", 0, 0, 0), SubmResp("bad", 0, 0, 0)}
    \cup {SubmResp("ok", a, b, c) : a \in 0..MaxArr, b \in 0..MaxArr, c \in 0..MaxArr}

CallSecMap(t, st) ==
    /\ pc = "idle" /\ rd = NoRd
    /\ LET r == _sec_map_for_ticker(t, st, directory) IN
       rd' = [NoRd EXCEPT !.op = "sec_map", !.ticker = t, !.st = st,
                          !.raised = r.raised, !.sec = r]
    /\ dirFetched' = (dirFetched \/ st = "ok")
    /\ UNCHANGED <<pc, query, q, is_ticker, title, wiki_qid, out, raised, calls, env,
                   directory, store, am>>

CallRecentFilings(cik, limit, resp) ==
    /\ pc = "idle" /\ rd = NoRd
    /\ LET r == _sec_recent_filings(cik, limit, resp) IN
       rd' = [NoRd EXCEPT !.op = "filings", !.cik = cik, !.limit = limit,
                          !.resp = resp, !.requested = r.requested,
                          !.raised = r.raised, !.value = r.value]
    /\ UNCHANGED <<pc, query, q, is_ticker, title, wiki_qid, out, raised, calls, env,
                   directory, dirFetched, store, am>>

\* the caller has used the reader's result
Consume ==
    /\ rd # NoRd
    /\ rd' = NoRd
    /\ UNCHANGED <<pc, query, q, is_ticker, title, wiki_qid, out, raised, calls, env,
                   directory, dirFetched, store, am>>

NextReaders ==
    \/ \E t \in Tickers, st \in Outcomes : CallSecMap(t, st)
    \/ \E cik \in Ciks, limit \in Limits, resp \in ReaderPayloads :
          CallRecentFilings(cik, limit, resp)
    \/ Consume

SpecReaders == Init /\ [][NextReaders]_vars

(***************************************************************************)
(* Direct calls of the leadership reader: the claims of one property are    *)
(* every list up to MaxClaims, each claim's label lookup answered on its own *)
(***************************************************************************)
MaxClaims == 3

ClaimKinds == {Claim("item", IdT), Claim("item", IdL), Claim("str", <<"T">>),
               Claim("none", <<>>)}
LabelReplies == {LabelResp("ok", <<"T">>), LabelResp("ok", <<"L">>),
                 LabelResp("fail", <<>>)}
\* a claim together with the answer its label lookup receives
ClaimSteps ==
    {x \in ClaimKinds \X (LabelReplies \cup {LabelResp("none", <<>>)}) :
        (x[1].kind = "item") = (x[2].st # "none")}
ClaimRuns == UNION {[1..n -> ClaimSteps] : n \in 0..MaxClaims}

CallLeadership(qid, st, run, e, w) ==
    /\ pc = "idle" /\ rd = NoRd
    /\ LET cl == [e EXCEPT !.P169 = [i \in 1..Len(run) |-> run[i][1]]]
           ans == [AnswersFor(e, w) EXCEPT !.P169 = [i \in 1..Len(run) |-> run[i][2]]]
           ent == EntResp(st, IF st = "ok" THEN cl ELSE NoClaims)
           lr == IF st = "ok" THEN ans ELSE AnswersFor(NoClaims, NoWorld)
           r == _wikidata_leadership(qid, ent, lr)
       IN rd' = [NoRd EXCEPT !.op = "lead", !.qid = qid, !.ent = ent, !.lresps = lr,
                             !.requested = r.requested, !.raised = r.raised,
                             !.lead = r.value]
    /\ UNCHANGED <<pc, query, q, is_ticker, title, wiki_qid, out, raised, calls, env,
                   directory, dirFetched, store, am>>

NextLeadership ==
    \/ CallLeadership(<<>>, "none", <<>>, NoClaims, NoWorld)
    \/ \E st \in {"fail", "bad"} : CallLeadership(Qid, st, <<>>, NoClaims, NoWorld)
    \/ /\ rd = NoRd
       /\ \E run \in ClaimRuns, e \in Entities, w \in LabelWorlds :
             CallLeadership(Qid, "ok", run, e, w)
    \/ Consume

SpecLeadership == Init /\ [][NextLeadership]_vars

(***************************************************************************)
(* Direct calls of every reader of services.py                              *)
(***************************************************************************)
WikiArgs == {<<"a", "b">>, TitleW}

CallOpensearch(s, resp) ==
    /\ pc = "idle" /\ rd = NoRd
    /\ LET r == _wiki_opensearch(s, resp) IN
       rd' = [NoRd EXCEPT !.op = "opensearch", !.arg = s, !.os = resp,
                          !.requested = TRUE, !.raised = r.raised, !.titles = r.titles]
    /\ UNCHANGED <<pc, query, q, is_ticker, title, wiki_qid, out, raised, calls, env,
                   directory, dirFetched, store, am>>

CallSummary(t, resp) ==
    /\ pc = "idle" /\ rd = NoRd
    /\ LET r == _wiki_summary(t, resp) IN
       rd' = [NoRd EXCEPT !.op = "summary", !.arg = t, !.sum = resp,
                          !.requested = TRUE, !.raised = r.raised, !.wiki = r.value]
    /\ UNCHANGED <<pc, query, q, is_ticker, title, wiki_qid, out, raised, calls, env,
                   directory, dirFetched, store, am>>

NextEveryReader ==
    \/ NextReaders
    \/ NextLeadership
    \/ \E s \in WikiArgs, resp \in OsResponses : CallOpensearch(s, resp)
    \/ \E t \in WikiArgs, resp \in SumResponses : CallSummary(t, resp)

SpecEveryReader == Init /\ [][NextEveryReader]_vars

(***************************************************************************)
(* Direct calls of the price and the news reader of providers.py; the keys  *)
(* are the environment the module was imported with                         *)
(***************************************************************************)
Keys == {<<>>, <<"k">>}
Symbols == {<<"A", "B">>}
NewsQueries == {<<"A", "B">>, <<"a", " ", "b">>}

CallGetPrice(symbol, avkey, quote) ==
    /\ pc = "idle" /\ rd = NoRd
    /\ LET r == get_price(symbol, quote) IN
       rd' = [NoRd EXCEPT !.op = "price", !.symbol = symbol, !.avkey = avkey,
                          !.quote = quote, !.raised = r.raised, !.price = r.value,
                          !.sources = r.sources]
    /\ UNCHANGED <<pc, query, q, is_ticker, title, wiki_qid, out, raised, calls, env,
                   directory, dirFetched, store, am>>

CallNewsSearch(key, qry, limit, resp) ==
    /\ pc = "idle" /\ rd = NoRd
    /\ LET r == newsapi_search(key, qry, limit, resp) IN
       rd' = [NoRd EXCEPT !.op = "news", !.key = key, !.nq = qry, !.limit = limit,
                          !.nresp = resp, !.requested = r.requested,
                          !.raised = r.raised, !.value = r.value]
    /\ UNCHANGED <<pc, query, q, is_ticker, title, wiki_qid, out, raised, calls, env,
                   directory, dirFetched, store, am>>

NextProviders ==
    \/ /\ rd = NoRd
       /\ \E symbol \in Symbols, avkey \in Keys, quote \in Quotes :
             CallGetPrice(symbol, avkey, quote)
    \/ /\ rd = NoRd
       /\ \E key \in Keys, qry \in NewsQueries, limit \in 0..MaxLimit,
              resp \in NewsResponses : CallNewsSearch(key, qry, limit, resp)
    \/ Consume

SpecProviders == Init /\ [][NextProviders]_vars

(***************************************************************************)
(* The desktop application: the handlers of main.py and the AlertsManager   *)
(* of alerts.py, started on a fresh installation                            *)
(***************************************************************************)
aggVars == <<pc, query, q, is_ticker, title, wiki_qid, out, raised, calls, env,
             directory, dirFetched, rd>>

InitApp ==
    /\ Idle
    /\ directory = <<>>
    /\ dirFetched = FALSE
    /\ rd = NoRd
    /\ store = Store0
    /\ am = Am0

MaxNotes == 2
MaxRems == 2

SaveOutcomes == {"ok", "fail"}
TickerStates == {"ok", "raise", "none"}
Did(op, h, sym, txt, done, saved) ==
    [op |-> op, h |-> h, symbol |-> sym, text |-> txt, done |-> done, saved |-> saved]

\* MainWindow(): load_data(), the tables are filled, and the data is written
\* back when the watchlist refresh or the silent update check (due) saves
NewWindow(h, t, due, w) ==
    LET data == load_data(store.file)
        rf == _refresh_watchlist_table(data, t)
        saves == rf.saves \/ due
    IN /\ store' = [store EXCEPT
              !.live[h] = TRUE, !.mem[h] = data, !.search[h] = <<>>,
              !.wlTbl[h] = rf.tbl, !.remTbl[h] = _refresh_reminders(data),
              !.file = IF saves THEN save_data(@, data, w) ELSE @,
              !.last = Did("construct", h, <<>>, <<>>, TRUE, saves /\ w = "ok")]
       /\ UNCHANGED <<aggVars, am>>

Search(h, input) ==
    /\ store.live[h]
    /\ store' = [store EXCEPT !.search[h] = perform_search(@, input),
                              !.last = Did("search", h, <<>>, <<>>, TRUE, FALSE)]
    /\ UNCHANGED <<aggVars, am>>

\* _add_current_to_watchlist(): save_data, then the refresh (which saves again)
AddCurrentToWatchlist(h, t, w) ==
    /\ store.live[h]
    /\ LET r == _add_current_to_watchlist(store.mem[h], store.search[h])
           rf == _refresh_watchlist_table(r.data, t)
           f1 == IF r.done THEN save_data(store.file, r.data, w) ELSE store.file
           f2 == IF r.done /\ rf.saves THEN save_data(f1, r.data, w) ELSE f1
       IN store' = [store EXCEPT
              !.mem[h] = r.data,
              !.wlTbl[h] = IF r.done THEN rf.tbl ELSE @,
              !.file = f2,
              !.last = Did("add_watch", h, <<>>, <<>>, r.done,
                           r.done /\ w = "ok")]
    /\ UNCHANGED <<aggVars, am>>

ImportWatchlistCsv(h, rows, t, w) ==
    /\ store.live[h]
    /\ LET data == _import_watchlist_csv(store.mem[h], rows)
           rf == _refresh_watchlist_table(data, t)
       IN store' = [store EXCEPT
              !.mem[h] = data, !.wlTbl[h] = rf.tbl,
              !.file = save_data(@, data, w),
              !.last = Did("import", h, <<>>, <<>>, TRUE, w = "ok")]
    /\ UNCHANGED <<aggVars, am>>

RemoveSelected(h, rows, w) ==
    /\ store.live[h]
    /\ rows # {} /\ rows \subseteq 1..Len(store.wlTbl[h])
    /\ LET r == _remove_selected(store.mem[h].watchlist, store.wlTbl[h], rows)
           data == [store.mem[h] EXCEPT !.watchlist = r.wl]
       IN store' = [store EXCEPT
              !.mem[h] = data, !.wlTbl[h] = r.tbl,
              !.file = save_data(@, data, w),
              !.last = Did("remove", h, <<>>, <<>>, TRUE, w = "ok")]
    /\ UNCHANGED <<aggVars, am>>

AddNote(h, symbol, text, fsym, ftxt, w) ==
    /\ store.live[h]
    /\ Len(store.mem[h].notes) < MaxNotes
    /\ LET r == _add_note(store.mem[h], symbol, text, fsym, ftxt)
       IN store' = [store EXCEPT
              !.mem[h] = r.data,
              !.file = IF r.done THEN save_data(@, r.data, w) ELSE @,
              !.last = Did("add_note", h, symbol, text, r.done, r.done /\ w = "ok")]
    /\ UNCHANGED <<aggVars, am>>

NoteSymbols == {<<"a", "b">>, <<" ", "N", "O", " ">>, <<" ">>, <<>>}
NoteTexts == {<<"t">>, <<" ", "t", " ">>, <<" ">>, <<>>}
SymbolField == {<<>>, <<"n", "o">>}
TextField == {<<>>, <<"f">>}
SearchInputs == {<<"a", "b">>, <<" ", "N", "O">>, <<" ">>}
CsvFiles ==
    { <<>>,
      << <<"n", "o">> >>,
      << <<"A", "B">>, <<" ">>, <<"a", "b">> >>,
      << <<"N", "O">>, <<" ", "A", "B">> >> }

\* one window working on its notes; a new MainWindow() replaces it
NextNotes ==
    \/ \E t \in TickerStates, due \in BOOLEAN, w \in SaveOutcomes :
          NewWindow("W1", t, due, w)
    \/ \E symbol \in NoteSymbols, text \in NoteTexts, fsym \in SymbolField,
           ftxt \in TextField, w \in SaveOutcomes :
          AddNote("W1", symbol, text, fsym, ftxt, w)

SpecNotes == InitApp /\ [][NextNotes]_vars

\* one window working on its watchlist
NextWatchlist ==
    \/ \E t \in TickerStates, due \in BOOLEAN, w \in SaveOutcomes :
          NewWindow("W1", t, due, w)
    \/ \E input \in SearchInputs : Search("W1", input)
    \/ \E t \in TickerStates, w \in SaveOutcomes : AddCurrentToWatchlist("W1", t, w)
    \/ \E rows \in CsvFiles, t \in TickerStates, w \in SaveOutcomes :
          ImportWatchlistCsv("W1", rows, t, w)
    \/ \E rows \in SUBSET (1..Len(store.wlTbl["W1"])), w \in SaveOutcomes :
          RemoveSelected("W1", rows, w)

SpecWatchlist == InitApp /\ [][NextWatchlist]_vars

\* the Add button of the reminders box: title field, time field, weekdays
AddReminder(h, t, hh, mm, days, w) ==
    LET r == _add_reminder(store.mem[h], t, hh, mm, days) IN
    /\ store.live[h]
    /\ Len(store.mem[h].reminders) < MaxRems
    /\ store' = [store EXCEPT
           !.mem[h] = r.data,
           !.remTbl[h] = IF r.done THEN _refresh_reminders(r.data) ELSE @,
           !.file = IF r.done THEN save_data(@, r.data, w) ELSE @,
           !.last = Did("add_rem", h, <<>>, <<>>, r.done, r.done /\ w = "ok")]
    /\ UNCHANGED <<aggVars, am>>

\* the Remove Selected button of the reminders box
RemoveSelectedRem(h, rows, w) ==
    /\ store.live[h]
    /\ IF rows = {}
         THEN store' = [store EXCEPT !.last = Did("remove_rem", h, <<>>, <<>>, FALSE, FALSE)]
         ELSE LET r == _remove_selected_rem(store.mem[h].reminders, store.remTbl[h], rows)
                  data == [store.mem[h] EXCEPT !.reminders = r.rems]
              IN store' = [store EXCEPT
                     !.mem[h] = data,
                     !.remTbl[h] = r.tbl,
                     !.file = save_data(@, data, w),
                     !.last = Did("remove_rem", h, <<>>, <<>>, TRUE, w = "ok")]
    /\ UNCHANGED <<aggVars, am>>

RemTitles == {<<"A">>, <<" ", "A">>, <<" ">>}
RemTimes == {<<9, 0>>, <<9, 30>>}
RemDays == {<<>>, <<0>>}

\* one window working on its reminders
NextReminders ==
    \/ \E t \in TickerStates, due \in BOOLEAN, w \in SaveOutcomes :
          NewWindow("W1", t, due, w)
    \/ \E t \in RemTitles, tm \in RemTimes, days \in RemDays, w \in SaveOutcomes :
          AddReminder("W1", t, tm[1], tm[2], days, w)
    \/ \E rows \in SUBSET (1..Len(store.remTbl["W1"])), w \in SaveOutcomes :
          RemoveSelectedRem("W1", rows, w)

SpecReminders == InitApp /\ [][NextReminders]_vars

MaxAlerts == 1

\* the "alerts" list a new manager is given or loads
LoadedAlerts ==
    { <<>>,
      <<Alert("legal", <<"a", "b">>, TRUE)>>,
      <<Alert("legal", <<"A", "B">>, FALSE)>>,
      <<Alert("price", <<"A", "B">>, TRUE), Alert("legal", <<"N", "O">>, TRUE)>>,
      <<Alert("legal", <<"A", "B">>, TRUE), Alert("legal", <<"a", "b">>, TRUE)>> }

\* AlertsManager(notify, data): data is the object handed in, or _load()
\* of data.json when none is
NewManager(data) ==
    /\ am' = [Am0 EXCEPT !.alerts = data.alerts]
    /\ store' = [store EXCEPT !.live["AM"] = TRUE, !.mem["AM"] = data,
                               !.last = Did("construct", "AM", <<>>, <<>>, TRUE, FALSE)]
    /\ UNCHANGED aggVars

\* add_legal_alert(symbol): the rule is appended and the whole object is
\* written; a write error is raised to the caller, the rule stays in memory
AddLegalAlert(sym, w) ==
    LET data == add_legal_alert(store.mem["AM"], sym) IN
    /\ store.live["AM"]
    /\ Len(am.alerts) < MaxAlerts
    /\ am' = [am EXCEPT !.alerts = data.alerts]
    /\ store' = [store EXCEPT !.mem["AM"] = data,
                               !.file = save_data(@, data, w),
                               !.last = Did("add_alert", "AM", <<>>, <<>>, TRUE, w = "ok")]
    /\ UNCHANGED aggVars

\* add_price_alert(symbol)
AddPriceAlert(sym, w) ==
    LET data == add_price_alert(store.mem["AM"], sym) IN
    /\ store.live["AM"]
    /\ Len(am.alerts) < MaxAlerts
    /\ am' = [am EXCEPT !.alerts = data.alerts]
    /\ store' = [store EXCEPT !.mem["AM"] = data,
                               !.file = save_data(@, data, w),
                               !.last = Did("add_alert", "AM", <<>>, <<>>, TRUE, w = "ok")]
    /\ UNCHANGED aggVars

\* tick(): the price and news parts send no 'SEC Filing' notification and
\* use keys of their own; answers[i] is what the providers return for alert i
Tick(answers) ==
    /\ store.live["AM"]
    /\ am.alerts # <<>>
    /\ am' = _tick_legal([am EXCEPT !.answers = answers, !.fresh = {}], answers, 1)
    /\ UNCHANGED <<aggVars, store>>

NextAlerts ==
    \/ \E alerts \in LoadedAlerts : NewManager([EmptyData EXCEPT !.alerts = alerts])
    \/ \E sym \in AlertSymbols \cup {<<"a", "b">>} : AddLegalAlert(sym, "ok")
    \/ /\ store.live["AM"]
       /\ \E answers \in [1..Len(am.alerts) -> TickAnswers] : Tick(answers)

SpecAlerts == InitApp /\ [][NextAlerts]_vars

\* two windows and an alerts manager on the same data.json: each holder
\* loads the whole file when constructed and writes its whole copy
SharedNotes == {<<"t">>, <<"u">>}
NextShared ==
    \/ \E h \in Windows, t \in TickerStates, due \in BOOLEAN, w \in SaveOutcomes :
          NewWindow(h, t, due, w)
    \/ NewManager(load_data(store.file))
    \/ \E h \in Windows, text \in SharedNotes, w \in SaveOutcomes :
          AddNote(h, <<"a", "b">>, text, <<>>, <<>>, w)
    \/ \E w \in SaveOutcomes : AddPriceAlert(<<"a", "b">>, w)

SpecShared == InitApp /\ [][NextShared]_vars

(***************************************************************************)
(* Properties of get_company_intel                                          *)
(***************************************************************************)
RecordKeys == {"name", "ticker", "wiki", "filings", "leadership"}

\* every provider request of the finished call was answered with a well-formed payload
Answered(st) == st \in {"ok", "none"}
OthersAnswered ==
    /\ Answered(env.os.st) /\ Answered(env.dir1) /\ Answered(env.summary.st)
    /\ env.dir2 = "ok" /\ Answered(env.lead.st)
    /\ \A id \in DOMAIN env.world : Answered(env.world[id].st)

\* C1: whatever the query and whichever provider requests fail, raise or
\* answer with a malformed payload, the finished call has raised nothing and
\* returns a record with exactly the keys name, ticker, wiki, filings and
\* leadership.
C1_NeverRaises ==
    pc = "done" => (~raised /\ DOMAIN out = RecordKeys
                    /\ DOMAIN out.leadership = DOMAIN EmptyLeadership)

C1_Witness ==
    /\ pc = "done" /\ ~raised
    /\ env.os.st = "bad" /\ env.summary.st = "fail" /\ env.dir2 = "bad"

\* C2: a call whose query is empty or only whitespace issues no provider
\* request and returns the all-empty record.
C2_EmptyQueryNoCalls ==
    (pc # "idle" /\ q = <<>>) => (calls = <<>> /\ out = OutInit)

\* C3: for a ticker-like query whose submissions request fails while every
\* other request is answered, name, ticker, wiki and leadership are those of
\* the same call with the submissions request answered, name is non-empty,
\* the summary is the fetched page, and filings is empty.
C3_FilingsFailureIsolated ==
    (pc = "done" /\ is_ticker /\ env.subm.st = "fail" /\ OthersAnswered) =>
        LET ref == get_company_intel(query, [env EXCEPT !.subm = SubmResp("ok", 2, 2, 2)],
                                     directory).out
        IN /\ ~raised
           /\ out.name = ref.name /\ out.ticker = ref.ticker
           /\ out.wiki = ref.wiki /\ out.leadership = ref.leadership
           /\ Truthy(out.name)
           /\ out.wiki.fetched /\ out.wiki.extract = env.summary.extract
           /\ out.filings = <<>> /\ ref.filings # <<>>

C3_Witness ==
    /\ pc = "done" /\ is_ticker /\ env.subm.st = "fail" /\ OthersAnswered
    /\ Truthy(out.wiki.extract) /\ out.leadership.ceo # <<>>

\* the first row of the directory whose symbol is t in some letter case
DirHits(t) == {i \in 1..Len(directory) : PyUpper(directory[i].ticker) = PyUpper(t)}
FirstHit(t) == CHOOSE i \in DirHits(t) : \A j \in DirHits(t) : i <= j

\* the label each claim of a list contributes once every lookup is answered
ClaimLabels(claims, w) ==
    [i \in 1..Len(claims) |->
        IF claims[i].kind = "item" THEN PyOr(w[claims[i].v].label, claims[i].v)
        ELSE IF claims[i].kind = "str" THEN claims[i].v
        ELSE <<>>]

FirstIndex(labels, l) == CHOOSE i \in 1..Len(labels) : labels[i] = l /\ \A j \in 1..(i - 1) : labels[j] # l

\* res lists the distinct labels once each, in order of first occurrence
FirstOccurrences(res, labels) ==
    /\ \A i, j \in 1..Len(res) : i # j => res[i] # res[j]
    /\ {res[i] : i \in 1..Len(res)} = {labels[k] : k \in 1..Len(labels)} \ {<<>>}
    /\ \A i, j \in 1..Len(res) : i < j => FirstIndex(labels, res[i]) < FirstIndex(labels, res[j])

ShortestArray(resp) ==
    Min(Min(Len(resp.form), Len(resp.filingDate)), Len(resp.primaryDocDescription))

\* entry i of fs is built from position i of each array of resp
Positional(fs, resp) ==
    \A i \in 1..Len(fs) :
        fs[i] = [form |-> resp.form[i], date |-> resp.filingDate[i],
                 desc |-> resp.primaryDocDescription[i]]

C4_Case ==
    /\ pc = "done" /\ is_ticker /\ OthersAnswered
    /\ env.dir1 = "ok" /\ env.summary.st = "ok" /\ env.subm.st = "ok"
    /\ DirHits(q) # {}
    /\ directory[FirstHit(q)].ticker = q
    /\ Truthy(directory[FirstHit(q)].title)
    /\ directory[FirstHit(q)].cik_str # MissingCik

\* C4: with every provider answering, a ticker-like query T whose directory
\* entry is {cik, T, N} gives ticker = T, name = N, wiki = the page summary
\* requested for title N, filings = the positional zip of the arrays of the
\* submissions requested for that CIK (from the first entry on, up to the
\* reader's limit), and the four leadership lists = the labels of the
\* P169/P488/P1037/P127 claims of the page's entity, respectively.
C4_EndToEnd ==
    C4_Case =>
        LET row == directory[FirstHit(q)]
            cl == env.lead.claims
        IN /\ out.ticker = q
           /\ out.name = row.title
           /\ \E i \in 1..Len(calls) : calls[i] = <<"summary", row.title>>
           /\ out.wiki = [fetched |-> TRUE, title |-> env.summary.title,
                          extract |-> env.summary.extract, url |-> env.summary.url,
                          wikibase_item |-> env.summary.wikibase_item]
           /\ \E i \in 1..Len(calls) : calls[i] = <<"submissions", PyFormat010(row.cik_str)>>
           /\ Len(out.filings) = Min(ShortestArray(env.subm), FilingsLimit)
           /\ Positional(out.filings, env.subm)
           /\ IF Truthy(env.summary.wikibase_item)
              THEN /\ env.lead.st = "ok"
                   /\ FirstOccurrences(out.leadership.ceo, ClaimLabels(cl.P169, env.world))
                   /\ FirstOccurrences(out.leadership.chairperson, ClaimLabels(cl.P488, env.world))
                   /\ FirstOccurrences(out.leadership.managers, ClaimLabels(cl.P1037, env.world))
                   /\ FirstOccurrences(out.leadership.owners, ClaimLabels(cl.P127, env.world))
              ELSE out.leadership = EmptyLeadership

C4_Witness ==
    /\ C4_Case
    /\ Len(out.filings) >= 2
    /\ out.leadership.ceo # <<>> /\ out.leadership.chairperson # <<>>
    /\ out.leadership.ceo # out.leadership.chairperson
    /\ out.leadership.managers # <<>>

DirRequests(c) == Cardinality({i \in 1..Len(c) : c[i][1] = "directory"})

\* C7: once a download of the ticker directory has succeeded, no later
\* step issues another directory request.
C7_DirectoryFetchedOnce ==
    [][dirFetched => DirRequests(calls') <= DirRequests(calls)]_vars

\* C9: the ticker of a returned record is empty or entirely uppercase.
C9_TickerUppercase ==
    pc = "done" => (out.ticker = <<>> \/ PyUpper(out.ticker) = out.ticker)

\* the answer of the k-th directory request of the running call
DirAnswer(k) == IF is_ticker /\ k = 1 THEN env.dir1 ELSE env.dir2
DirCallAt(k) ==
    CHOOSE i \in 1..Len(calls) :
        /\ calls[i][1] = "directory"
        /\ DirRequests(SubSeq(calls, 1, i)) = k

\* C10: whenever a directory lookup of the finished call returned a title,
\* the record's name is that title.
C10_NamePrefersDirectoryTitle ==
    pc = "done" =>
        \A k \in 1..DirRequests(calls) :
            LET r == _sec_map_for_ticker(calls[DirCallAt(k)][2], DirAnswer(k), directory)
            IN (~r.raised /\ r.found /\ Truthy(r.title)) => out.name = r.title

(***************************************************************************)
(* Properties of the SEC readers, called directly                           *)
(***************************************************************************)

\* C6 (as claimed): for every CIK, limit and delivered payload the filings
\* reader returns exactly min(limit, shortest array) entries.
C6_ExactlyMinForEveryCik ==
    (rd.op = "filings" /\ rd.resp.st = "ok") =>
        (~rd.raised /\ Len(rd.value) = Min(rd.limit, ShortestArray(rd.resp)))

\* C6 (amended): for every non-empty numeric CIK, every limit and every
\* submissions payload the request delivers, the reader returns exactly
\* max(0, min(limit, shortest array)) entries, entry i built from position i
\* of each array: never more than a non-negative limit, in provider order.
C6_ZipToMin ==
    (rd.op = "filings" /\ Truthy(rd.cik) /\ IsNumeral(rd.cik) /\ rd.resp.st = "ok") =>
        /\ ~rd.raised /\ rd.requested
        /\ Len(rd.value) = Max(0, Min(rd.limit, ShortestArray(rd.resp)))
        /\ Positional(rd.value, rd.resp)
        /\ rd.limit >= 0 => Len(rd.value) <= rd.limit

C6_Witness ==
    /\ rd.op = "filings" /\ IsNumeral(rd.cik) /\ rd.resp.st = "ok"
    /\ rd.limit = 2 /\ Len(rd.value) = 2
    /\ Len(rd.resp.form) = 3 /\ Len(rd.resp.filingDate) = 2

\* C8: ticker resolution compares case-insensitively: for a ticker the
\* directory holds in any letter case it returns the CIK and title of the
\* (first) matching entry; when the ticker is absent or the directory
\* request fails it returns the empty mapping and raises nothing.
C8_TickerResolution ==
    rd.op = "sec_map" =>
        /\ (rd.st = "ok" /\ DirHits(rd.ticker) # {}) =>
              LET row == directory[FirstHit(rd.ticker)] IN
              /\ ~rd.raised /\ rd.sec.found
              /\ rd.sec.title = row.title
              /\ rd.sec.ticker = row.ticker
              /\ IF row.cik_str = MissingCik THEN ~IsNumeral(rd.sec.cik)
                 ELSE IsNumeral(rd.sec.cik) /\ PyInt(rd.sec.cik) = row.cik_str
        /\ (rd.st = "fail" \/ (rd.st = "ok" /\ DirHits(rd.ticker) = {})) =>
              (~rd.raised /\ rd.sec = NoSec)

C8_Witness ==
    /\ rd.op = "sec_map" /\ rd.st = "ok" /\ rd.sec.found
    /\ rd.ticker # rd.sec.ticker
    /\ IsNumeral(rd.sec.cik) /\ PyInt(rd.sec.cik) = 42


ShortSymbol(s) ==
    /\ Len(s) \in 1..TickerMaxLen
    /\ \A i \in 1..Len(s) : UpperChar(s[i]) \in UpperLetters \cup {".", "-"}

C13_DirectoryFillsTicker ==
    (pc = "done" /\ ~is_ticker) =>
        /\ calls[1][1] = "opensearch"
        /\ \E i \in 2..Len(calls) : calls[i] = <<"directory", q>>
        /\ (env.dir2 = "ok" /\ DirHits(q) # {}) =>
              out.ticker = directory[FirstHit(q)].ticker

C13_Witness ==
    /\ pc = "done" /\ ~is_ticker /\ Truthy(q)
    /\ env.os.st = "ok" /\ env.summary.st = "ok" /\ Truthy(out.wiki.title)
    /\ env.dir2 = "ok" /\ DirHits(q) # {}
    /\ Truthy(out.ticker) /\ out.ticker # q


\* C14: when the opensearch or the summary request of a finished aggregation
\* failed, the record's summary has the original query as its title and an
\* empty extract and url.
C14_FallbackSummary ==
    (pc = "done" /\ Truthy(q)
       /\ (env.os.st \in {"fail", "bad"} \/ env.summary.st \in {"fail", "bad"})) =>
        /\ out.wiki.title \in {query, q}
        /\ out.wiki.extract = <<>>
        /\ out.wiki.url = <<>>


\* C17: a finished aggregation has requested the price and the news, and its
\* record carries a news sequence next to the (optional) price.
C17_PriceAndNews ==
    pc = "done" =>
        /\ \E i \in 1..Len(calls) : calls[i][1] = "price"
        /\ \E i \in 1..Len(calls) : calls[i][1] = "news"
        /\ "news" \in DOMAIN out

\* C25: when the first directory lookup of a ticker-like query returned a
\* row with a CIK, the finished call has requested that CIK's submissions, and
\* when they are answered with filings the record's filings are not empty.
C25_FilingsFollowFirstLookup ==
    (/\ pc = "done" /\ is_ticker
     /\ env.dir1 = "ok" /\ DirHits(q) # {}
     /\ directory[FirstHit(q)].cik_str # MissingCik) =>
        /\ \E i \in 1..Len(calls) :
              calls[i] = <<"submissions", PyFormat010(directory[FirstHit(q)].cik_str)>>
        /\ (env.subm.st = "ok" /\ ShortestArray(env.subm) > 0) => out.filings # <<>>

\* C27: one leadership step asks for the label of each referenced entity id
\* at most once.
C27_OneLookupPerId ==
    pc = "done" =>
        \A id \in {IdT, IdL} :
            Cardinality({i \in 1..Len(calls) : calls[i] = <<"label", id>>}) <= 1

(***************************************************************************)
(* Properties of the leadership reader                                      *)
(***************************************************************************)
LeadField == [P169 |-> "ceo", P488 |-> "chairperson", P1037 |-> "managers",
              P127 |-> "owners"]

\* the label claim i of a list resolves to, <<>> when it contributes none
ResolvedLabels(claims, lresps) ==
    [i \in 1..Len(claims) |->
        IF claims[i].kind = "item"
        THEN (IF lresps[i].st = "ok" /\ lresps[i].label # <<>>
              THEN lresps[i].label ELSE claims[i].v)
        ELSE IF claims[i].kind = "str" THEN claims[i].v
        ELSE <<>>]

\* C15: each list the leadership reader returns holds the resolved labels of
\* its property's claims once each, in the order of their first occurrence;
\* claims [Q2, Q3, Q2] resolving to T, L, T give <<T, L>>.
C15_DedupKeepsFirst ==
    (rd.op = "lead" /\ ~rd.raised /\ rd.requested) =>
        /\ \A p \in DOMAIN LeadField :
              FirstOccurrences(rd.lead[LeadField[p]],
                               ResolvedLabels(rd.ent.claims[p], rd.lresps[p]))
        /\ (/\ rd.ent.claims.P169 = <<Claim("item", IdT), Claim("item", IdL),
                                      Claim("item", IdT)>>
            /\ rd.lresps.P169 = <<LabelResp("ok", <<"T">>), LabelResp("ok", <<"L">>),
                                  LabelResp("ok", <<"T">>)>>)
              => rd.lead.ceo = << <<"T">>, <<"L">> >>

C15_Witness ==
    /\ rd.op = "lead" /\ ~rd.raised
    /\ rd.ent.claims.P169 = <<Claim("item", IdT), Claim("item", IdL), Claim("item", IdT)>>
    /\ rd.lresps.P169 = <<LabelResp("ok", <<"T">>), LabelResp("ok", <<"L">>),
                          LabelResp("ok", <<"T">>)>>
    /\ rd.lead.ceo = << <<"T">>, <<"L">> >>

\* C16: a call of the leadership reader with no identifier, with an entity
\* without claims, or with a failing claims or label request returns four
\* empty lists and raises nothing.
C16_EmptyOnAnyFailure ==
    (/\ rd.op = "lead"
     /\ \/ ~Truthy(rd.qid)
        \/ rd.ent.st \in {"fail", "bad"}
        \/ (rd.ent.st = "ok" /\ rd.ent.claims = NoClaims)
        \/ \E p \in DOMAIN LeadField : \E i \in 1..Len(rd.lresps[p]) :
              rd.lresps[p][i].st = "fail") =>
        (~rd.raised /\ rd.lead = EmptyLeadership)


(***************************************************************************)
(* Properties of the price and the news reader                              *)
(***************************************************************************)
\* the primary source has no number to offer: the lookup raised, or no field
\* get_price reads holds one
NoPrimaryValue(quote) ==
    \/ quote.st \in {"raise", "nondict"}
    \/ /\ quote.flat.kind # "num"
       /\ quote.d.st = "dict" =>
             \A x \in {quote.d.regular, quote.d.post, quote.d.pre} : x.kind # "num"

\* C18: a call of get_price whose primary source has no value, made with the
\* secondary credential configured, queries the secondary source after the
\* primary one.
C18_SecondaryFallback ==
    (rd.op = "price" /\ Truthy(rd.avkey) /\ NoPrimaryValue(rd.quote)) =>
        /\ Len(rd.sources) = 2
        /\ rd.sources[1] = "yahooquery"
        /\ rd.sources[2] = "alphavantage"

\* C19: a call of get_price whose primary source has no value, made with no
\* secondary key, returns None: it does not raise and does not return zero.
C19_NoValueIsNone ==
    (rd.op = "price" /\ ~Truthy(rd.avkey) /\ NoPrimaryValue(rd.quote)) =>
        /\ ~rd.raised
        /\ rd.price = PxNone
        /\ rd.price # PxNum(0)

C19_Witness ==
    /\ rd.op = "price" /\ ~Truthy(rd.avkey)
    /\ rd.quote.st = "dict" /\ rd.quote.d.st = "dict"
    /\ rd.quote.d.regular = PxNone /\ rd.quote.d.post = PxStr
    /\ rd.quote.flat = PxNone
    /\ rd.price = PxNone

\* C20: a news search made with no key returns the empty sequence and sends
\* no request, whatever the query, the limit and the provider's state.
C20_NoKeyNoRequest ==
    (rd.op = "news" /\ ~Truthy(rd.key)) =>
        (rd.value = <<>> /\ ~rd.requested /\ ~rd.raised)

C20_Witness ==
    /\ rd.op = "news" /\ ~Truthy(rd.key) /\ Truthy(rd.nq) /\ rd.limit > 0
    /\ rd.nresp.st = "ok" /\ Len(rd.nresp.articles) = MaxArticles
    /\ rd.value = <<>> /\ ~rd.requested


\* C21: a news search made with a key sends one request and returns at most
\* limit items, however many articles the response holds.
C21_AtMostLimitItems ==
    (rd.op = "news" /\ Truthy(rd.key)) =>
        (rd.requested /\ Len(rd.value) <= rd.limit)


(***************************************************************************)
(* Properties of the readers taken together                                 *)
(***************************************************************************)
\* C22: whichever reader is called, a failure of the request it issues does
\* not leave the reader as an exception: the reader returns its empty value.
C22_ReadersConsumeFailures ==
    /\ (rd.op = "sec_map" /\ rd.st = "fail") => (~rd.raised /\ rd.sec = NoSec)
    /\ (rd.op = "filings" /\ rd.requested /\ rd.resp.st = "fail") =>
          (~rd.raised /\ rd.value = <<>>)
    /\ (rd.op = "opensearch" /\ rd.os.st = "fail") => (~rd.raised /\ rd.titles = <<>>)
    /\ (rd.op = "summary" /\ rd.sum.st = "fail") => (~rd.raised /\ rd.wiki = NoWiki)
    /\ (rd.op = "lead" /\ rd.ent.st = "fail") =>
          (~rd.raised /\ rd.lead = EmptyLeadership)


\* C26: a call of the filings reader whose request fails, whose payload has
\* the wrong shape or whose CIK is not numeric returns the empty sequence and
\* raises nothing.
C26_FilingsShapeSafe ==
    (/\ rd.op = "filings"
     /\ \/ rd.resp.st \in {"fail", "bad"}
        \/ ~IsNumeral(rd.cik)) =>
        (~rd.raised /\ rd.value = <<>>)


(***************************************************************************)
(* Properties of the AlertsManager                                          *)
(***************************************************************************)
\* C28: over the ticks of one manager no filing key has been notified twice,
\* and the notifications of a tick are for keys among the three most recent
\* filings of the enabled legal alerts.
C28_OneNotificationPerFiling ==
    /\ \A k \in AllKeys : am.sent[k] <= 1
    /\ \A k \in am.fresh :
          \E i \in 1..Len(am.alerts) :
             /\ am.alerts[i].type = "legal" /\ am.alerts[i].enabled
             /\ am.answers[i].found
             /\ \E j \in 1..Min(3, Len(am.answers[i].feed)) :
                   k = FilingKey(PyUpper(am.alerts[i].symbol), am.answers[i].feed[j])

C28_Witness ==
    /\ Len(am.alerts) = 2
    /\ am.alerts[1].symbol # am.alerts[2].symbol
    /\ PyUpper(am.alerts[1].symbol) = PyUpper(am.alerts[2].symbol)
    /\ Len(am.answers) = 2
    /\ am.answers[1].found /\ Len(am.answers[1].feed) = MaxFeed
    /\ am.answers[2] = am.answers[1]
    /\ Cardinality(am.fresh) = 3
    /\ FilingKey(PyUpper(am.alerts[2].symbol), Filing(1)) \notin am.seen
    /\ am.sent[FilingKey(PyUpper(am.alerts[2].symbol), Filing(MaxFeed))] = 1


(***************************************************************************)
(* Properties of the notes, the watchlist and the reminders of a window     *)
(***************************************************************************)
\* the note _add_note was asked to store
AskedNote == Note(PyUpper(PyStrip(store.last.symbol)), PyStrip(store.last.text))
LastNoteStored ==
    LET notes == store.mem[store.last.h].notes IN
    notes # <<>> /\ notes[Len(notes)] = AskedNote
LastNotePersisted ==
    store.file.exists /\ Contains(load_data(store.file).notes, AskedNote)

NoDuplicates(s) == \A i, j \in 1..Len(s) : i # j => s[i] # s[j]

C29_TableShowsReminders ==
    \A h \in Windows :
        store.live[h] => store.remTbl[h] = _refresh_reminders(store.mem[h])

\* C30: a write of data.json by any holder keeps every note, watchlist
\* symbol and alert rule the file held before it (the operations here only
\* add entries, so what the file held was written by some holder).
C30_SavesKeepEntries ==
    [][store.file.exists =>
          /\ Range(store.file.data.notes) \subseteq Range(store'.file.data.notes)
          /\ Range(store.file.data.watchlist) \subseteq Range(store'.file.data.watchlist)
          /\ Range(store.file.data.alerts) \subseteq Range(store'.file.data.alerts)]_vars

============================================================================
